---- MODULE Spec2Model ----
(***************************************************************************)
(* State-machine model of app2.py: a FastAPI resource handler over one     *)
(* MongoDB collection of "empenho" documents.                              *)
(*                                                                         *)
(* JSON values are tagged tuples: <<"str", s>>, <<"list", rows>>,          *)
(* <<"null">>, <<"doc", fields>>.  A request body and a stored document    *)
(* are functions from key strings to JSON values.  An identifier string is *)
(* a sequence of one-character strings; an ObjectId is the lower-case hex  *)
(* digits of its bytes.                                                    *)
(***************************************************************************)
EXTENDS Naturals, Sequences, FiniteSets, TLC

VARIABLES
    store,      \* the collection: documents in insertion (store-native) order
    nextId,     \* counter part of the next ObjectId the store generates
    pending,    \* create requests suspended between insert_one and find_one
                \* (the inserted_id each holds)
    req,        \* the request whose handler took the last step
    resp,       \* the response that handler produced (status 0: none yet)
    deleted,    \* history: ObjectIds a delete has removed
    fresh,      \* history: the records creates returned, each kept until an
                \* update or a delete of its identifier succeeds
    written,    \* history: ObjectId -> the field values acknowledged updates
                \* assigned last, kept until the record is deleted
    cursor      \* the list request suspended between the batches of its
                \* cursor: <<>> for none, else <<[docs, quiet]>> with the
                \* documents fetched so far and (history) whether no request
                \* has changed the collection since

vars == <<store, nextId, pending, req, resp, deleted, fresh, written, cursor>>

----------------------------------------------------------------------------
(* Bounds *)

MaxIds == 2

MaxBulk == 1001

BulkStart == 1000

(* Program constants *)

ListCap == 1000

OidLen == 24

\* Documents in the first reply to a find that sets no batch size.
FirstBatch == 101

----------------------------------------------------------------------------
(* JSON values *)

Null == <<"null">>

Str(s) == <<"str", s>>

List(l) == <<"list", l>>

IsNone(v) == v[1] = "null"

IsStr(v) == v[1] = "str"

IsList(v) == v[1] = "list"

\* An embedded document.
Doc(d) == <<"doc", d>>

IsDoc(v) == v[1] = "doc"

----------------------------------------------------------------------------
(* bson.ObjectId: construction from a string, and str() *)

HexDigits == <<"0", "1", "2", "3", "4", "5", "6", "7", "8", "9",
               "a", "b", "c", "d", "e", "f">>

UpperHex == <<"A", "B", "C", "D", "E", "F">>

Range(s) == {s[i] : i \in DOMAIN s}

HexChars == Range(HexDigits) \cup Range(UpperHex)

\* bytes.fromhex reads either case; str() writes lower case.
LowerMap ==
    [c \in HexChars |->
        IF c \in Range(UpperHex)
        THEN HexDigits[10 + (CHOOSE i \in DOMAIN UpperHex : UpperHex[i] = c)]
        ELSE c]

Lower(c) == LowerMap[c]

\* ASCII whitespace, which bytes.fromhex skips between bytes: space, tab,
\* line feed, vertical tab (written as the character itself), form feed and
\* carriage return.
WhitespaceSeq == <<" ", "\t", "\n", "", "\f", "\r">>

Whitespace == {WhitespaceSeq[i] : i \in DOMAIN WhitespaceSeq}

\* bytes.fromhex raising ValueError.
Invalid == <<"invalid">>

\* bytes.fromhex(s): whitespace is skipped before each byte, a byte is two
\* adjacent hexadecimal characters; the bytes are written here as lower-case
\* hex digits.
RECURSIVE FromHex(_)
FromHex(s) ==
    IF Len(s) = 0 THEN <<>>
    ELSE IF s[1] \in Whitespace THEN FromHex(Tail(s))
    ELSE IF Len(s) >= 2 /\ s[1] \in HexChars /\ s[2] \in HexChars
    THEN LET rest == FromHex(SubSeq(s, 3, Len(s)))
         IN  IF rest = Invalid THEN Invalid
             ELSE <<Lower(s[1]), Lower(s[2])>> \o rest
    ELSE Invalid

\* ObjectId(s) does not raise InvalidId: s has 24 characters and
\* bytes.fromhex(s) succeeds (the number of bytes it yields is not checked).
OidValid(s) == Len(s) = OidLen /\ FromHex(s) # Invalid

\* ObjectId(s) for a valid s: a BSON value of type ObjectId holding the bytes
\* bytes.fromhex(s) yields.
ObjectId(s) == <<"oid", FromHex(s)>>

\* A Python str used as a BSON value: type string, never equal to an ObjectId.
BsonStr(s) == <<"str", s>>

\* str(oid): the PyObjectId BeforeValidator(str) of the response model.
OidStr(oid) == oid[2]

RECURSIVE ToHex(_, _)
ToHex(n, len) ==
    IF len = 0 THEN <<>>
    ELSE Append(ToHex(n \div 16, len - 1), HexDigits[(n % 16) + 1])

\* The ObjectId insert_one generates for the n-th insertion: fresh per n.
GenOid(n) == ObjectId(ToHex(n, OidLen))

----------------------------------------------------------------------------
(* EmpenhoModel / UpdateEmpenhoModel: fields and aliases *)

PlainFields ==
    {"Número", "Data", "Credor", "Alteração", "Empenhado", "Liquidado",
     "Pago", "Atualizado", "link_Detalhes", "Poder", "Função", "Subfunção",
     "Subelemento", "Histórico"}

AliasedFields ==
    {"Elemento_de_Despesa", "Unid_Administradora", "Unid_Orçamentária",
     "Fonte_de_recurso", "Projeto_Atividade", "Categorias_de_base_legal",
     "Itens"}

\* Every field of UpdateEmpenhoModel; EmpenhoModel has these and id.
DataFields == PlainFields \cup AliasedFields

\* Field(alias=...): the key a field has on the wire and in storage.
AliasMap ==
    [f \in DataFields \cup {"id"} |->
        CASE f = "id" -> "_id"
          [] f = "Elemento_de_Despesa" -> "Elemento de Despesa"
          [] f = "Unid_Administradora" -> "Unid. Administradora"
          [] f = "Unid_Orçamentária" -> "Unid. Orçamentária"
          [] f = "Fonte_de_recurso" -> "Fonte de recurso"
          [] f = "Projeto_Atividade" -> "Projeto/Atividade"
          [] f = "Categorias_de_base_legal" -> "Categorias de base legal"
          [] f = "Itens" -> "Item(ns)"
          [] OTHER -> f]

Alias(f) == AliasMap[f]

\* The display names: what a request body is documented to carry.
DisplayNames == {Alias(f) : f \in DataFields}

FieldOfAliasMap == [k \in DisplayNames |-> CHOOSE f \in DataFields : Alias(f) = k]

FieldOfAlias(k) == FieldOfAliasMap[k]

\* The annotated type of a field accepts the value.
TypeOk(f, v) == IF f = "Itens" THEN IsList(v) ELSE IsStr(v)

\* populate_by_name: a field is read under its alias, else under its name.
HasInput(body, f) == Alias(f) \in DOMAIN body \/ f \in DOMAIN body

InputOf(body, f) ==
    IF Alias(f) \in DOMAIN body THEN body[Alias(f)] ELSE body[f]

\* EmpenhoModel validation of a request body: every data field is required.
ValidEmpenho(body) ==
    \A f \in DataFields : HasInput(body, f) /\ TypeOk(f, InputOf(body, f))

\* empenho.model_dump(by_alias=True, exclude=["id"]) of a validated body.
DumpForInsert(body) == [k \in DisplayNames |-> InputOf(body, FieldOfAlias(k))]

\* UpdateEmpenhoModel validation: every field optional, None allowed.
ValidUpdate(body) ==
    \A f \in DataFields :
        HasInput(body, f) =>
            (IsNone(InputOf(body, f)) \/ TypeOk(f, InputOf(body, f)))

\* {k: v for k, v in empenho.model_dump(by_alias=True).items() if v is not None}
UpdateSet(body) ==
    LET keys == {Alias(f) : f \in {g \in DataFields :
                     HasInput(body, g) /\ ~IsNone(InputOf(body, g))}}
    IN  [k \in keys |-> InputOf(body, FieldOfAlias(k))]

----------------------------------------------------------------------------
(* The collection: the motor/pymongo operations the handlers call *)

Min(a, b) == IF a < b THEN a ELSE b

\* BSON equality of two _id values: same type and same content.
SameId(a, b) == a[1] = b[1] /\ a[2] = b[2]

Matching(coll, q) == {i \in DOMAIN coll : SameId(coll[i]["_id"], q)}

FirstMatch(coll, q) ==
    CHOOSE i \in Matching(coll, q) : \A j \in Matching(coll, q) : i <= j

\* insert_one(doc): the store adds the generated _id and appends.
InsertOne(coll, doc, oid) ==
    Append(coll, [k \in DOMAIN doc \cup {"_id"} |->
                     IF k = "_id" THEN oid ELSE doc[k]])

\* find_one({"_id": q}): <<doc>> for the first match, <<>> for None.
FindOne(coll, q) ==
    IF Matching(coll, q) = {} THEN <<>> ELSE <<coll[FirstMatch(coll, q)]>>

\* find(): the first reply of the cursor, the first FirstBatch documents in
\* store order.
FindFirstBatch(coll) == SubSeq(coll, 1, Min(Len(coll), FirstBatch))

\* The cursor stays open after a reply that the batch size cut off; a reply
\* that ran to the end of the collection closes it.
CursorAlive(batch) == Len(batch) >= FirstBatch

\* getMore on a cursor that has returned the documents got: the documents the
\* collection now holds after the cursor's position, in store order.
\* Documents keep their place and insertions go to the end, so these are the
\* stored documents the cursor has not returned.  (The reply holds all of
\* them: documents of this size stay far below the reply's size limit.)
GetMore(coll, got) ==
    LET seen == {got[i]["_id"] : i \in DOMAIN got}
        Ahead(d) == d["_id"] \notin seen
    IN  SelectSeq(coll, Ahead)

\* Take as it would be with to_list given no length.
TakeAll(docs, length) == docs

\* to_list(length) on a reply: at most the count still wanted is taken.
Take(docs, length) == SubSeq(docs, 1, Min(Len(docs), length))

\* to_list(1000) after a reply: the list so far and whether it is complete
\* (length reached or cursor closed).
ToList(got, batch, alive) ==
    LET the_list == got \o Take(batch, ListCap - Len(got))
    IN  [the_list |-> the_list,
         done |-> Len(the_list) >= ListCap \/ ~alive]

\* A "$set" key as the store reads it: a '.' in the key separates the names
\* of a path into embedded documents.  The keys are aliases of the model; two
\* of them hold a '.'.
PathOf(k) ==
    CASE k = "Unid. Administradora" -> <<"Unid", " Administradora">>
      [] k = "Unid. Orçamentária" -> <<"Unid", " Orçamentária">>
      [] OTHER -> <<k>>

\* The document after {"$set": set}.  A key without '.' names a top-level
\* field, which is replaced or added.  A key with a path sets the field of
\* the embedded document at the path's head, creating that document when the
\* record has none; the top-level field whose name is the whole key is left
\* as it is.  (Insertion writes aliases only, so a path's head is either
\* absent or an embedded document made by an earlier "$set".)
ApplySet(doc, set) ==
    LET flat == {k \in DOMAIN set : Len(PathOf(k)) = 1}
        deep == DOMAIN set \ flat
        heads == {PathOf(k)[1] : k \in deep}
        Embedded(h) ==
            LET old == IF h \in DOMAIN doc /\ IsDoc(doc[h]) THEN doc[h][2]
                       ELSE <<>>
                subs == {k \in deep : PathOf(k)[1] = h}
                names == {PathOf(k)[2] : k \in subs}
            IN  Doc([n \in DOMAIN old \cup names |->
                        IF n \in names
                        THEN set[CHOOSE k \in subs : PathOf(k)[2] = n]
                        ELSE old[n]])
    IN  [k \in DOMAIN doc \cup flat \cup heads |->
            IF k \in heads THEN Embedded(k)
            ELSE IF k \in flat THEN set[k]
            ELSE doc[k]]

\* find_one_and_update({"_id": q}, {"$set": set}, return_document=AFTER):
\* one atomic store operation, no upsert.
FindOneAndUpdate(coll, q, set) ==
    IF Matching(coll, q) = {}
    THEN [coll |-> coll, found |-> <<>>]
    ELSE LET i == FirstMatch(coll, q)
             after == ApplySet(coll[i], set)
         IN  [coll |-> [coll EXCEPT ![i] = after], found |-> <<after>>]

RemoveAt(coll, i) == SubSeq(coll, 1, i - 1) \o SubSeq(coll, i + 1, Len(coll))

\* DeleteOne as it would be if the match were counted and not removed.
DeleteOneKeeps(coll, q) ==
    IF Matching(coll, q) = {}
    THEN [coll |-> coll, deleted_count |-> 0]
    ELSE [coll |-> coll, deleted_count |-> 1]

\* delete_one({"_id": q})
DeleteOne(coll, q) ==
    IF Matching(coll, q) = {}
    THEN [coll |-> coll, deleted_count |-> 0]
    ELSE [coll |-> RemoveAt(coll, FirstMatch(coll, q)), deleted_count |-> 1]

----------------------------------------------------------------------------
(* Responses *)

\* response_model=EmpenhoModel, response_model_by_alias=False: the document is
\* validated into the model (id from "_id" through str) and dumped under the
\* model's field names; a key of the document that is no field's alias or
\* name is ignored.
SerializeEmpenho(doc) ==
    [f \in DataFields \cup {"id"} |->
        IF f = "id" THEN Str(OidStr(doc["_id"])) ELSE InputOf(doc, f)]

\* An uncaught exception (bson InvalidId, response validation of None).
ServerError == [status |-> 500, body |-> <<"Internal Server Error">>]

\* Request-body validation failure raised by the framework.
Unprocessable == [status |-> 422, body |-> <<"validation error">>]

\* HTTPException(status_code=404, detail=f"{prefix} {id} not found")
NotFound(prefix, id) == [status |-> 404, body |-> <<prefix, id, "not found">>]

\* A handler returning a document (or None) through the response model.
ModelResponse(code, found) ==
    IF Len(found) = 0 THEN ServerError
    ELSE [status |-> code, body |-> SerializeEmpenho(found[1])]

----------------------------------------------------------------------------
(* Handlers: each maps the collection and a request to the collection after *)
(* it and the response.                                                     *)

\* create_empenho up to its first await: insert_one of the dumped body.
CreateInsert(coll, n, body) == InsertOne(coll, DumpForInsert(body), GenOid(n))

\* create_empenho after the insertion: find_one by inserted_id, then return.
CreateReturn(coll, oid) == ModelResponse(201, FindOne(coll, oid))

\* list_empenhos: EmpenhoCollection(empenhos=...) of the documents to_list
\* gathered, through the response model.
list_empenhos(docs) ==
    [status |-> 200,
     body |-> [empenhos |-> [i \in DOMAIN docs |-> SerializeEmpenho(docs[i])]]]

show_empenho(coll, id) ==
    IF ~OidValid(id) THEN [coll |-> coll, resp |-> ServerError]
    ELSE LET found == FindOne(coll, ObjectId(id))
         IN  [coll |-> coll,
              resp |-> IF Len(found) = 1 THEN ModelResponse(200, found)
                       ELSE NotFound("Empenho", id)]

update_empenho(coll, id, body) ==
    IF ~ValidUpdate(body) THEN [coll |-> coll, resp |-> Unprocessable]
    ELSE LET set == UpdateSet(body) IN
         IF DOMAIN set # {}
         THEN IF ~OidValid(id) THEN [coll |-> coll, resp |-> ServerError]
              ELSE LET r == FindOneAndUpdate(coll, ObjectId(id), set)
                   IN  [coll |-> r.coll,
                        resp |-> IF Len(r.found) = 1
                                 THEN ModelResponse(200, r.found)
                                 ELSE NotFound("Empenho", id)]
         ELSE LET existing == FindOne(coll, BsonStr(id))
              IN  [coll |-> coll,
                   resp |-> IF Len(existing) = 1
                            THEN ModelResponse(200, existing)
                            ELSE NotFound("Empenho", id)]

delete_empenho(coll, id) ==
    IF ~OidValid(id) THEN [coll |-> coll, resp |-> ServerError]
    ELSE LET r == DeleteOne(coll, ObjectId(id))
         IN  [coll |-> r.coll,
              resp |-> IF r.deleted_count = 1
                       THEN [status |-> 204, body |-> <<>>]
                       ELSE NotFound("empenho", id)]

----------------------------------------------------------------------------
(* Inputs *)

Rows(v) == List(<<List(<<Str("Descrição"), Str("Valor Total")>>),
                  List(<<List(<<Str(v), Str("R$300,00")>>)>>)>>)

\* A complete body under the display names.
FullBody(v) == [k \in DisplayNames |-> IF k = "Item(ns)" THEN Rows(v) ELSE Str(v)]

\* The same body under the model's field names.
BodyByName(v) == [f \in DataFields |-> IF f = "Itens" THEN Rows(v) ELSE Str(v)]

Without(body, k) == [j \in DOMAIN body \ {k} |-> body[j]]

With(body, k, v) == [j \in DOMAIN body \cup {k} |-> IF j = k THEN v ELSE body[j]]

NoBody == [k \in {} |-> Null]

CreateBodies ==
    {FullBody("a"), BodyByName("b"),
     With(FullBody("a"), "_id", Str("x")),
     Without(FullBody("a"), "Credor"),
     With(FullBody("a"), "Item(ns)", Str("a"))}

\* A body with a field under its name, a list field and a null field.
SomeFields ==
    With(With(With(NoBody, "Unid_Administradora", Str("d")),
              "Item(ns)", List(<<>>)), "Pago", Null)

UpdateBodies ==
    {NoBody, With(NoBody, "Credor", Null), SomeFields,
     With(NoBody, "Data", List(<<>>))}

Malformed == {<<"1">>, [i \in 1..OidLen |-> "z"]}

\* 24 characters that bytes.fromhex reads as 8 bytes: three characters a
\* byte, two digits and a whitespace character, each of the six in turn.
Spaced ==
    [i \in 1..OidLen |->
        IF i % 3 = 0 THEN WhitespaceSeq[((i \div 3) % Len(WhitespaceSeq)) + 1]
        ELSE "0"]

\* Identifier strings a client may send: never assigned (0), assigned at some
\* time (1..MaxIds), accepted by ObjectId though not 12 bytes, and malformed.
IdInputs == {OidStr(GenOid(n)) : n \in 0..MaxIds} \cup {Spaced} \cup Malformed

----------------------------------------------------------------------------
(* State machine *)

Request(op, id, body) == [op |-> op, id |-> id, body |-> body]

\* The returned records other than the one of identifier oid.
Forget(recs, oid) ==
    LET Other(rec) == rec["id"] # Str(OidStr(oid))
    IN  SelectSeq(recs, Other)

\* History: a suspended list after another request changed the collection.
Disturbed(cur) ==
    IF Len(cur) = 0 THEN cur ELSE <<[cur[1] EXCEPT !.quiet = FALSE]>>

\* History: the assignments of set laid over the earlier ones.
Overlay(old, set) ==
    [k \in DOMAIN old \cup DOMAIN set |->
        IF k \in DOMAIN set THEN set[k] ELSE old[k]]

Init ==
    /\ store = <<>>
    /\ nextId = 1
    /\ pending = {}
    /\ req = Request("none", <<>>, NoBody)
    /\ resp = [status |-> 0, body |-> <<>>]
    /\ deleted = {}
    /\ fresh = <<>>
    /\ written = <<>>
    /\ cursor = <<>>

\* POST /empenhos/ up to the await of insert_one (or rejected with 422).
CreateBegin(body) ==
    IF ValidEmpenho(body)
    THEN /\ store' = CreateInsert(store, nextId, body)
         /\ nextId' = nextId + 1
         /\ pending' = pending \cup {GenOid(nextId)}
         /\ req' = Request("create", OidStr(GenOid(nextId)), body)
         /\ resp' = [status |-> 0, body |-> <<>>]
         /\ cursor' = Disturbed(cursor)
         /\ UNCHANGED <<deleted, fresh, written>>
    ELSE /\ req' = Request("create", OidStr(GenOid(nextId)), body)
         /\ resp' = Unprocessable
         /\ UNCHANGED <<store, nextId, pending, deleted, fresh, written, cursor>>

\* POST /empenhos/ resumed: find_one by inserted_id and the response.
CreateEnd(oid) ==
    \E r \in {CreateReturn(store, oid)} :
    /\ oid \in pending
    /\ pending' = pending \ {oid}
    /\ req' = Request("created", OidStr(oid), NoBody)
    /\ resp' = r
    /\ fresh' = IF r.status = 201 THEN Append(fresh, r.body) ELSE fresh
    /\ UNCHANGED <<store, nextId, deleted, written, cursor>>

\* GET /empenhos/ up to the first reply of its cursor: answered at once when
\* that reply completes the list, else suspended until the next reply.  (One
\* list is followed at a time; a list changes nothing another list reads.)
ListFind ==
    \E r \in {ToList(<<>>, FindFirstBatch(store),
                      CursorAlive(FindFirstBatch(store)))} :
    /\ Len(cursor) = 0
    /\ req' = Request("list", <<>>, NoBody)
    /\ IF r.done
       THEN /\ resp' = list_empenhos(r.the_list)
            /\ cursor' = cursor
       ELSE /\ resp' = [status |-> 0, body |-> <<>>]
            /\ cursor' = <<[docs |-> r.the_list, quiet |-> TRUE]>>
    /\ UNCHANGED <<store, nextId, pending, deleted, fresh, written>>

\* GET /empenhos/ resumed at the next reply of its cursor, which runs to the
\* end of the collection.  (History: the request is marked when another
\* request changed the collection since the first reply.)
ListMore ==
    /\ Len(cursor) = 1
    /\ \E r \in {ToList(cursor[1].docs, GetMore(store, cursor[1].docs), FALSE)} :
        /\ req' = Request(IF cursor[1].quiet THEN "list" ELSE "list-disturbed",
                          <<>>, NoBody)
        /\ resp' = list_empenhos(r.the_list)
    /\ cursor' = <<>>
    /\ UNCHANGED <<store, nextId, pending, deleted, fresh, written>>

\* GET /empenhos/{id}
Show(id) ==
    /\ req' = Request("show", id, NoBody)
    /\ resp' = show_empenho(store, id).resp
    /\ UNCHANGED <<store, nextId, pending, deleted, fresh, written, cursor>>

\* PUT /empenhos/{id}
Update(id, body) ==
    \E r \in {update_empenho(store, id, body)} :
    /\ store' = r.coll
    /\ req' = Request("update", id, body)
    /\ resp' = r.resp
    /\ fresh' = IF r.resp.status = 200 THEN Forget(fresh, ObjectId(id))
                ELSE fresh
    /\ written' =
           IF r.resp.status = 200
           THEN With(written, ObjectId(id),
                     IF ObjectId(id) \in DOMAIN written
                     THEN Overlay(written[ObjectId(id)], UpdateSet(body))
                     ELSE UpdateSet(body))
           ELSE written
    /\ cursor' = IF r.resp.status = 200 /\ DOMAIN UpdateSet(body) # {}
                 THEN Disturbed(cursor) ELSE cursor
    /\ UNCHANGED <<nextId, pending, deleted>>

\* DELETE /empenhos/{id}
Delete(id) ==
    \E r \in {delete_empenho(store, id)} :
    /\ store' = r.coll
    /\ req' = Request("delete", id, NoBody)
    /\ resp' = r.resp
    /\ deleted' = IF r.resp.status = 204
                  THEN deleted \cup {ObjectId(id)} ELSE deleted
    /\ fresh' = IF r.resp.status = 204 THEN Forget(fresh, ObjectId(id))
                ELSE fresh
    /\ written' = IF r.resp.status = 204 /\ ObjectId(id) \in DOMAIN written
                  THEN Without(written, ObjectId(id)) ELSE written
    /\ cursor' = IF r.resp.status = 204 THEN Disturbed(cursor) ELSE cursor
    /\ UNCHANGED <<nextId, pending>>

\* Requests dispatched concurrently, each handler running up to its next
\* store call: a create is suspended between its two store calls, where any
\* other request may run; a list of a collection that fits the first reply of
\* its cursor, as every collection of at most MaxIds documents does, makes
\* one store call, and so does every other handler.
Next ==
    \/ \E body \in CreateBodies : nextId <= MaxIds /\ CreateBegin(body)
    \/ \E oid \in pending : CreateEnd(oid)
    \/ ListFind
    \/ \E id \in IdInputs : Show(id)
    \/ \E id \in IdInputs, body \in UpdateBodies : Update(id, body)
    \/ \E id \in IdInputs : Delete(id)

Spec == Init /\ [][Next]_vars

\* The same requests with one valid and one invalid create body and one
\* update body, over every identifier input.
FewCreates == {FullBody("a"), Without(FullBody("a"), "Credor")}

NextFew ==
    \/ \E body \in FewCreates : nextId <= MaxIds /\ CreateBegin(body)
    \/ \E oid \in pending : CreateEnd(oid)
    \/ ListFind
    \/ \E id \in IdInputs : Show(id)
    \/ \E id \in IdInputs : Update(id, SomeFields)
    \/ \E id \in IdInputs : Delete(id)

SpecFew == Init /\ [][NextFew]_vars

\* The collection after n insertions of one body.
Loaded(n) == [i \in 1..n |-> CreateInsert(<<>>, i, FullBody("a"))[1]]

\* A collection loaded to just below the list cap (no history is kept of the
\* records loaded).
InitBulk ==
    /\ store = Loaded(BulkStart)
    /\ nextId = BulkStart + 1
    /\ pending = {}
    /\ req = Request("none", <<>>, NoBody)
    /\ resp = [status |-> 0, body |-> <<>>]
    /\ deleted = {}
    /\ fresh = <<>>
    /\ written = <<>>
    /\ cursor = <<>>

\* Identifiers of the two oldest records.
BulkIds == {OidStr(GenOid(n)) : n \in 1..2}

\* Around the list cap: creations up to past the cap, lists fetched in two
\* replies, and deletes and updates of the oldest records.
NextBulk ==
    \/ nextId <= MaxBulk /\ CreateBegin(FullBody("a"))
    \/ \E oid \in pending : CreateEnd(oid)
    \/ ListFind
    \/ ListMore
    \/ \E id \in BulkIds : Update(id, SomeFields)
    \/ \E id \in BulkIds : Delete(id)

SpecBulk == InitBulk /\ [][NextBulk]_vars

----------------------------------------------------------------------------
(* Properties *)

Ids(coll) == {coll[i]["_id"] : i \in DOMAIN coll}

\* The request supplies field f with a value other than null.
Supplied(body, f) == HasInput(body, f) /\ ~IsNone(InputOf(body, f))

SomeSupplied(body) == \E f \in DataFields : Supplied(body, f)

\* The request names an identifier of the store's format held by a record.
Known(coll, id) == OidValid(id) /\ ObjectId(id) \in Ids(coll)

Unknown(coll, id) == OidValid(id) /\ ObjectId(id) \notin Ids(coll)

\* C1: an update that supplies no field (or only nulls) returns the existing
\* record unmodified with 200, and fails with 404 when no record has the
\* identifier.
C1_EmptyUpdateReturnsExisting ==
    (req.op = "update" /\ ~SomeSupplied(req.body) /\ OidValid(req.id)) =>
        IF Known(store, req.id)
        THEN /\ resp.status = 200
             /\ resp.body = SerializeEmpenho(FindOne(store, ObjectId(req.id))[1])
        ELSE resp.status = 404

\* C2: an update of a stored record that supplies some non-null fields (in a
\* body the update model accepts) returns 200 with the record after the
\* update; the stored record then has exactly the supplied fields set to the
\* supplied values, its identifier and every other field as before; every
\* other record is unchanged and none is added or removed.
C2_PartialUpdate ==
    [][(req'.op = "update" /\ Known(store, req'.id) /\ SomeSupplied(req'.body)
            /\ ValidUpdate(req'.body)) =>
        \A i \in Matching(store, ObjectId(req'.id)) :
        /\ resp'.status = 200
        /\ Len(store') = Len(store)
        /\ \A j \in DOMAIN store : j # i => store'[j] = store[j]
        /\ DOMAIN store'[i] = DOMAIN store[i]
        /\ store'[i]["_id"] = store[i]["_id"]
        /\ \A f \in DataFields :
              store'[i][Alias(f)] = IF Supplied(req'.body, f)
                                    THEN InputOf(req'.body, f)
                                    ELSE store[i][Alias(f)]
        /\ resp'.body = SerializeEmpenho(store'[i])
      ]_vars

\* C3: a create of a valid body inserts exactly one record, under an
\* identifier no stored record held, and returns 201 with the record of that
\* identifier; a later read of that identifier, with no update or delete of
\* it in between, returns the record create returned.
C3_CreateThenRead ==
    [][/\ (req'.op = "create" /\ ValidEmpenho(req'.body)) =>
            /\ Len(store') = Len(store) + 1
            /\ SubSeq(store', 1, Len(store)) = store
            /\ store'[Len(store')]["_id"] \notin Ids(store)
            /\ OidStr(store'[Len(store')]["_id"]) = req'.id
       /\ req'.op = "created" =>
            /\ resp'.status = 201
            /\ resp'.body["id"] = Str(req'.id)
            /\ store' = store
       /\ req'.op = "show" =>
            \A i \in DOMAIN fresh :
                fresh[i]["id"] = Str(req'.id) =>
                    resp' = [status |-> 200, body |-> fresh[i]]
      ]_vars

\* C4: a delete returns 204 exactly when a record with the identifier was
\* stored, and then removes that record and no other; a delete of a
\* well-formed identifier that no record has fails with 404; a delete that
\* does not return 204 changes nothing; after a delete of an identifier has
\* succeeded, every later delete of it fails with 404.
C4_Delete ==
    [][req'.op = "delete" =>
        /\ resp'.status = 204 <=> Known(store, req'.id)
        /\ resp'.status = 204 =>
              /\ Len(store') = Len(store) - 1
              /\ Ids(store') = Ids(store) \ {ObjectId(req'.id)}
              /\ Range(store') = {d \in Range(store) : d["_id"] # ObjectId(req'.id)}
        /\ resp'.status # 204 => store' = store
        /\ Unknown(store, req'.id) => resp'.status = 404
        /\ (OidValid(req'.id) /\ ObjectId(req'.id) \in deleted) =>
              resp'.status = 404
      ]_vars

C4_Witness ==
    /\ req.op = "delete" /\ resp.status = 404
    /\ OidValid(req.id) /\ ObjectId(req.id) \in deleted
    /\ Len(store) >= 1

\* C5: a read, an update or a delete of a well-formed identifier that no
\* record has answers 404 with the message "Empenho <id> not found" and leaves
\* the store unchanged.
C5_UnknownIdMessage ==
    [][(req'.op \in {"show", "update", "delete"} /\ Unknown(store, req'.id)
            /\ ValidUpdate(req'.body)) =>
        /\ resp' = [status |-> 404, body |-> <<"Empenho", req'.id, "not found">>]
        /\ store' = store
      ]_vars

\* The records of a list response.
Listed(r) == r.body.empenhos

\* C6 as stated: a list answers 200 with min(n, 1000) records of the n
\* stored, no two with the same identifier and each a record the store holds,
\* and it leaves the store unchanged.
C6_ListCap ==
    [][(req'.op \in {"list", "list-disturbed"}) =>
        /\ store' = store
        /\ resp'.status = 200 =>
              /\ Len(Listed(resp')) = IF Len(store) < 1000 THEN Len(store) ELSE 1000
              /\ Cardinality({Listed(resp')[i]["id"] : i \in DOMAIN Listed(resp')})
                    = Len(Listed(resp'))
              /\ {Listed(resp')[i]["id"] : i \in DOMAIN Listed(resp')}
                    \subseteq {Str(OidStr(o)) : o \in Ids(store)}
      ]_vars

\* C6 amended: a list leaves the store unchanged and answers 200 with at
\* most 1000 records, no two with the same identifier; when no other request
\* changes the store while the list is fetched, these are the first
\* min(n, 1000) of the n stored records in store order, each as the response
\* model writes it, so 1000 of 1001.
C6_ListCapQuiet ==
    [][(req'.op \in {"list", "list-disturbed"}) =>
        /\ store' = store
        /\ resp'.status \in {0, 200}
        /\ resp'.status = 200 =>
              /\ Len(Listed(resp')) <= 1000
              /\ Cardinality({Listed(resp')[i]["id"] : i \in DOMAIN Listed(resp')})
                    = Len(Listed(resp'))
              /\ req'.op = "list" =>
                    /\ Len(Listed(resp')) =
                          IF Len(store) < 1000 THEN Len(store) ELSE 1000
                    /\ \A i \in DOMAIN Listed(resp') :
                          Listed(resp')[i] = SerializeEmpenho(store[i])
      ]_vars

C6_Witness ==
    /\ req.op = "list" /\ resp.status = 200
    /\ Len(store) = 1001
    /\ Len(Listed(resp)) = 1000
    /\ pending # {}

\* C7: a read, an update (whatever body it decodes, an empty one included) or
\* a delete of an identifier that does not parse as an ObjectId ends in a
\* server error (500).
C7_MalformedIdIsServerError ==
    (req.op \in {"show", "update", "delete"} /\ ~OidValid(req.id)
        /\ ValidUpdate(req.body)) =>
        resp.status = 500

\* C8: every record in a response of create, list, read and update names its
\* fields by their display names, plus the identifier as a plain string.
C8_ResponseUsesDisplayNames ==
    LET Wire(rec) == \E idk \in {"id", "_id"} :
                        /\ DOMAIN rec = DisplayNames \cup {idk}
                        /\ IsStr(rec[idk])
    IN  /\ (req.op \in {"create", "show", "update"} /\ resp.status \in {200, 201})
              => Wire(resp.body)
        /\ (req.op = "list" /\ resp.status = 200) =>
              \A i \in DOMAIN resp.body.empenhos : Wire(resp.body.empenhos[i])

\* C9: a create that has inserted its record ends in 201 with the record of
\* the inserted identifier or in a defined error, never in the unhandled
\* server error, whatever other requests run between its insertion and its
\* re-read.
C9_CreateReturnsCreated ==
    req.op = "created" =>
        /\ resp.status # 500
        /\ resp.status = 201 => resp.body["id"] = Str(req.id)

\* C10: under any interleaving of requests, (a) every value an acknowledged
\* update assigned stays in the record until a later acknowledged update
\* assigns that field again, (b) the record an update returns carries that
\* update's assignments, and (c) an update either succeeds on a stored record
\* or fails with 404, and no deleted record is stored again.
C10_AtomicUpdate ==
    /\ \A i \in DOMAIN store :
          store[i]["_id"] \in DOMAIN written =>
              \A k \in DOMAIN written[store[i]["_id"]] :
                  store[i][k] = written[store[i]["_id"]][k]
    /\ (req.op = "update" /\ resp.status = 200) =>
          /\ Known(store, req.id)
          /\ \A f \in DataFields :
                Supplied(req.body, f) => resp.body[f] = InputOf(req.body, f)
    /\ (req.op = "update" /\ OidValid(req.id) /\ SomeSupplied(req.body)
            /\ ValidUpdate(req.body)) =>
          resp.status = IF Known(store, req.id) THEN 200 ELSE 404
    /\ Ids(store) \cap deleted = {}

====
